---- MODULE Spec2Model ----
(***************************************************************************)
(* The form state hook useForm of typed-form-core (src/src/useForm.ts).    *)
(*                                                                         *)
(* The hook keeps three React states (values, errors, touched).  A state   *)
(* setter enqueues an update; a functional updater is applied to the state *)
(* left by the updates enqueued before it, so the variables values, errors *)
(* and touched below hold the state the queue resolves to.  The callbacks  *)
(* the hook returns are closures: validateField, validateAll, register and *)
(* handleSubmit read the constant `values` of the render that created them *)
(* (useCallback dependencies [validators, values]), which is the variable  *)
(* rendered here.  A binding returned by register and a callback returned  *)
(* by handleSubmit keep the closure of the render they were obtained from. *)
(* The caller is a component as in the README: the body of every render    *)
(* takes a binding for each field and a submit callback from the hook.     *)
(***************************************************************************)
EXTENDS Naturals, Sequences, FiniteSets, TLC

\* ------------------------------------------------------------------ bounds
MaxLen == 1

\* ------------------------------------------------------------ input domains
\* The field names of the form, in the insertion order of defaultValues.
FieldOrder == <<"password", "confirm">>

Fields == {FieldOrder[i] : i \in 1..Len(FieldOrder)}

RECURSIVE Str(_)
Str(n) == IF n = 0 THEN "" ELSE "x" \o Str(n - 1)

\* The strings a field may hold.
Strings == {Str(n) : n \in 0..MaxLen}

\* TValues: one value per field.
TValues == [Fields -> Strings]

\* ValidatorResult = string | null
Null == "<null>"

\* The validators a caller supplies, by what they compute.
ValidatorKinds == {"required", "match", "blank"}

\* (value) => (value.length > 0 ? null : 'Required')
Required(value, vals) == IF Len(value) > 0 THEN Null ELSE "Required"

\* (value, values) => value === values.password ? null : 'Passwords must match'
Match(value, vals) == IF value = vals["password"] THEN Null ELSE "Passwords must match"

\* A validator whose message for an empty value is the empty string.
Blank(value, vals) == IF Len(value) > 0 THEN Null ELSE ""

Apply(kind, value, vals) ==
    CASE kind = "required" -> Required(value, vals)
      [] kind = "match"    -> Match(value, vals)
      [] kind = "blank"    -> Blank(value, vals)

EmptyMap == [f \in {} |-> ""]

\* Validators<TValues>: a validator for some of the fields.
Only(name, kind) == [f \in {name} |-> kind]

Both(first, second) == [f \in Fields |-> IF f = "password" THEN first ELSE second]

\* options.validators: absent, or one of the mappings of the tests and the README.
ValidatorOptions ==
    {[present |-> FALSE, of |-> EmptyMap]}
        \cup {[present |-> TRUE, of |-> m] :
                m \in {Only("password", "required"), Both("required", "match"),
                       Both("blank", "match")}}

\* Truthy that tests `message != null` instead
TruthyNonNull(message) == message # Null

\* JavaScript truthiness of a string | null.
Truthy(message) == message # Null /\ message # ""

\* { ...prev, [name]: v }
Put(prev, name, v) ==
    [f \in DOMAIN prev \cup {name} |-> IF f = name THEN v ELSE prev[f]]

\* const next = { ...prev }; delete next[name]
Delete(prev, name) == [f \in DOMAIN prev \ {name} |-> prev[f]]

\* -------------------------------------------------------------------- state
VARIABLES
    options,        \* what the caller passes to useForm; the callbacks close over it
    initial,        \* the defaultValues of the first render, which useState kept
    values,         \* useState: values
    errors,         \* useState: errors
    touched,        \* useState: touched
    rendered,       \* the `values` the callbacks of the latest render close over
    bindings,       \* the bindings the caller holds from register(name)
    handlers,       \* the callback the caller holds from handleSubmit(onValid)
    validated,      \* per field: the message of its latest validation, or "never"
    blurred,        \* the fields whose onBlur was invoked since useForm or the last reset
    replaced,       \* the states the last call gave another object instead of writing
                    \* into the object they held
    validations,    \* how many times the last call ran validateAll
    last            \* the call made last and what it was seen to do

vars == <<options, initial, values, errors, touched, rendered,
          bindings, handlers, validated, blurred, replaced, validations, last>>

\* A call as the caller observes it: the operation, its field name and its value,
\* values or event argument if any, what it returned ("fault" if it threw), the values its
\* validators were handed, the arguments of its calls of onValid, and whether it
\* called preventDefault.
Call(op, name, arg, ret, seen, onValid, prevented) ==
    [op |-> op, name |-> name, arg |-> arg, ret |-> ret, seen |-> seen,
     onValid |-> onValid, prevented |-> prevented]

Quiet(op, name) == Call(op, name, {}, "void", {}, <<>>, FALSE)

NoName == "-"

\* what reading a property an object lacks gives
Undefined == "<undefined>"

\* what register(name) returns in a render whose closure holds cvals
Binding(name, cvals) ==
    [name |-> name,
     value |-> IF name \in DOMAIN cvals THEN cvals[name] ELSE Undefined,
     values |-> cvals]

\* what handleSubmit(onValid) returns in a render whose closure holds cvals
Handler(cvals) == [values |-> cvals]

\* the properties of the object useForm returns
UseFormReturn ==
    {"values", "errors", "touched", "register", "setValue", "validateField",
     "validateAll", "handleSubmit", "reset"}

\* result.current.isSubmitting, as JavaScript prints it: a property the returned
\* object lacks reads as undefined
IsSubmitting == IF "isSubmitting" \in UseFormReturn THEN "false" ELSE "undefined"

\* Init that validates the initial values
InitValidating ==
    /\ options \in [defaultValues : TValues, validators : ValidatorOptions]
    /\ initial = options.defaultValues
    /\ values = options.defaultValues
    /\ errors = [f \in {g \in DOMAIN options.validators.of :
                            Truthy(Apply(options.validators.of[g], values[g], values))}
                    |-> Apply(options.validators.of[f], values[f], values)]
    /\ touched = EmptyMap
    /\ rendered = values
    /\ bindings = {Binding(f, options.defaultValues) : f \in Fields}
    /\ handlers = {Handler(options.defaultValues)}
    /\ validated = [f \in Fields |-> "never"]
    /\ blurred = {}
    /\ replaced = {}
    /\ validations = 0
    /\ last = Quiet("useForm", NoName)

Init ==
    /\ options \in [defaultValues : TValues, validators : ValidatorOptions]
    /\ initial = options.defaultValues
    /\ values = options.defaultValues
    /\ errors = EmptyMap
    /\ touched = EmptyMap
    /\ rendered = values
    /\ bindings = {Binding(f, options.defaultValues) : f \in Fields}
    /\ handlers = {Handler(options.defaultValues)}
    /\ validated = [f \in Fields |-> "never"]
    /\ blurred = {}
    /\ replaced = {}
    /\ validations = 0
    /\ last = Quiet("useForm", NoName)

\* ------------------------------------------------------------ validateField
\* validators?.[name]
HasValidator(name) == options.validators.present /\ name \in DOMAIN options.validators.of

\* validate(values[name], values), with the values of the closure
Message(name, cvals) == Apply(options.validators.of[name], cvals[name], cvals)

\* ValidateFieldErrors without the `else delete next[name]` of its updater
ValidateFieldErrorsKeepingEntry(prev, name, cvals) ==
    IF HasValidator(name) /\ Truthy(Message(name, cvals))
    THEN Put(prev, name, Message(name, cvals))
    ELSE prev

\* ValidateFieldErrors that starts from an empty object instead of { ...prev }
ValidateFieldErrorsFromScratch(prev, name, cvals) ==
    IF HasValidator(name) /\ Truthy(Message(name, cvals))
    THEN Put(EmptyMap, name, Message(name, cvals))
    ELSE EmptyMap

\* the updater validateField passes to setErrors
ValidateFieldErrors(prev, name, cvals) ==
    IF ~HasValidator(name)
    THEN IF name \notin DOMAIN prev THEN prev ELSE Delete(prev, name)
    ELSE IF Truthy(Message(name, cvals))
         THEN Put(prev, name, Message(name, cvals))
         ELSE Delete(prev, name)

\* ValidateFieldResult that takes a missing validator for a failed validation
ValidateFieldResultMissingIsInvalid(name, cvals) ==
    HasValidator(name) /\ Message(name, cvals) = Null

\* what validateField returns
ValidateFieldResult(name, cvals) ==
    IF ~HasValidator(name) THEN TRUE ELSE Message(name, cvals) = Null

\* the states whose object validateField replaces: its updater returns prev itself
\* when there is no validator and no entry, a copy otherwise
ValidateFieldReplaced(prev, name) ==
    IF ~HasValidator(name) /\ name \notin DOMAIN prev THEN {} ELSE {"errors"}

\* the values validateField hands to a validator
ValidateFieldSeen(name, cvals) == IF HasValidator(name) THEN {cvals} ELSE {}

ValidateFieldNote(name, cvals) ==
    [f \in DOMAIN validated |->
        IF f # name THEN validated[f]
        ELSE IF HasValidator(name) THEN Message(name, cvals) ELSE Null]

\* result.current.validateField(name)
ValidateField(name) ==
    /\ replaced' = ValidateFieldReplaced(errors, name)
    /\ validations' = 0
    /\ UNCHANGED blurred
    /\ errors' = ValidateFieldErrors(errors, name, rendered)
    /\ validated' = ValidateFieldNote(name, rendered)
    /\ last' = Call("validateField", name, {}, ValidateFieldResult(name, rendered),
                    ValidateFieldSeen(name, rendered), <<>>, FALSE)
    /\ UNCHANGED <<options, initial, values, touched, rendered, bindings, handlers>>

\* ----------------------------------------------------------------- setValue
\* SetValue whose updater writes into the object it is given:
\* (prev) => { prev[name] = value; return prev }
SetValueInPlace(name, value) ==
    /\ replaced' = {}
    /\ validations' = 0
    /\ UNCHANGED blurred
    /\ values' = Put(values, name, value)
    /\ last' = Call("setValue", name, {value}, "void", {}, <<>>, FALSE)
    /\ UNCHANGED <<options, initial, errors, touched, rendered,
                   bindings, handlers, validated>>

\* SetValue that also marks the field as touched
SetValueTouching(name, value) ==
    /\ replaced' = {"values"}
    /\ validations' = 0
    /\ UNCHANGED blurred
    /\ values' = Put(values, name, value)
    /\ touched' = Put(touched, name, TRUE)
    /\ last' = Call("setValue", name, {value}, "void", {}, <<>>, FALSE)
    /\ UNCHANGED <<options, initial, errors, rendered, bindings, handlers, validated>>

\* SetValue that spreads the values of its closure: setValues({ ...values, [name]: value })
SetValueFromClosure(name, value) ==
    /\ replaced' = {"values"}
    /\ validations' = 0
    /\ UNCHANGED blurred
    /\ values' = Put(rendered, name, value)
    /\ last' = Call("setValue", name, {value}, "void", {}, <<>>, FALSE)
    /\ UNCHANGED <<options, initial, errors, touched, rendered,
                   bindings, handlers, validated>>

\* SetValue that writes the property called "name": { ...prev, name: value }
SetValueLiteralKey(name, value) ==
    /\ replaced' = {"values"}
    /\ validations' = 0
    /\ UNCHANGED blurred
    /\ values' = Put(values, "name", value)
    /\ last' = Call("setValue", name, {value}, "void", {}, <<>>, FALSE)
    /\ UNCHANGED <<options, initial, errors, touched, rendered,
                   bindings, handlers, validated>>

\* result.current.setValue(name, value)
SetValue(name, value) ==
    /\ replaced' = {"values"}
    /\ validations' = 0
    /\ UNCHANGED blurred
    /\ values' = Put(values, name, value)
    /\ last' = Call("setValue", name, {value}, "void", {}, <<>>, FALSE)
    /\ UNCHANGED <<options, initial, errors, touched, rendered,
                   bindings, handlers, validated>>

\* -------------------------------------------------------------- validateAll
\* The forEach of validateAll over Object.keys(values): the pair <<ok, nextErrors>>
\* after the keys of the sequence, started from acc.
RECURSIVE ValidateAllLoop(_, _, _)
ValidateAllLoop(keys, cvals, acc) ==
    IF keys = <<>> THEN acc
    ELSE LET key == Head(keys) IN
         IF ~(key \in DOMAIN options.validators.of)
         THEN ValidateAllLoop(Tail(keys), cvals, acc)
         ELSE IF Truthy(Message(key, cvals))
              THEN ValidateAllLoop(Tail(keys), cvals,
                                   <<FALSE, Put(acc[2], key, Message(key, cvals))>>)
              ELSE ValidateAllLoop(Tail(keys), cvals, acc)

\* Object.keys(values), for values with the keys of the construction
Keys(cvals) == SelectSeq(FieldOrder, LAMBDA f : f \in DOMAIN cvals)

\* ValidateAllRun without the `ok = false` of its loop
ValidateAllRunOkNeverCleared(cvals) ==
    IF ~options.validators.present
    THEN <<TRUE, EmptyMap>>
    ELSE <<TRUE, ValidateAllLoop(Keys(cvals), cvals, <<TRUE, EmptyMap>>)[2]>>

\* <<ok, nextErrors>> of validateAll run with the values of the closure
ValidateAllRun(cvals) ==
    IF ~options.validators.present
    THEN <<TRUE, EmptyMap>>
    ELSE ValidateAllLoop(Keys(cvals), cvals, <<TRUE, EmptyMap>>)

ValidateAllResult(cvals) == ValidateAllRun(cvals)[1]

ValidateAllErrors(cvals) == ValidateAllRun(cvals)[2]

\* the values validateAll hands to the validators
ValidateAllSeen(cvals) ==
    IF options.validators.present /\ DOMAIN options.validators.of # {} THEN {cvals} ELSE {}

ValidateAllNote(cvals) ==
    [f \in Fields |-> IF HasValidator(f) THEN Message(f, cvals) ELSE Null]

\* ValidateAll that also calls setValues(values) with the values of its closure
ValidateAllRestoringValues ==
    /\ replaced' = {"errors", "values"}
    /\ validations' = 1
    /\ UNCHANGED blurred
    /\ values' = rendered
    /\ errors' = ValidateAllErrors(rendered)
    /\ validated' = ValidateAllNote(rendered)
    /\ last' = Call("validateAll", NoName, {}, ValidateAllResult(rendered),
                    ValidateAllSeen(rendered), <<>>, FALSE)
    /\ UNCHANGED <<options, initial, touched, rendered, bindings, handlers>>

\* ValidateAll that also calls setTouched({})
ValidateAllClearingTouched ==
    /\ replaced' = {"errors", "touched"}
    /\ validations' = 1
    /\ UNCHANGED blurred
    /\ errors' = ValidateAllErrors(rendered)
    /\ touched' = EmptyMap
    /\ validated' = ValidateAllNote(rendered)
    /\ last' = Call("validateAll", NoName, {}, ValidateAllResult(rendered),
                    ValidateAllSeen(rendered), <<>>, FALSE)
    /\ UNCHANGED <<options, initial, values, rendered, bindings, handlers>>

\* result.current.validateAll()
ValidateAll ==
    /\ replaced' = {"errors"}
    /\ validations' = 1
    /\ UNCHANGED blurred
    /\ errors' = ValidateAllErrors(rendered)
    /\ validated' = ValidateAllNote(rendered)
    /\ last' = Call("validateAll", NoName, {}, ValidateAllResult(rendered),
                    ValidateAllSeen(rendered), <<>>, FALSE)
    /\ UNCHANGED <<options, initial, values, touched, rendered, bindings, handlers>>

\* ----------------------------------------------------------------- register
\* result.current.register(name): the binding closes over the render's values
Register(name) ==
    /\ replaced' = {}
    /\ validations' = 0
    /\ UNCHANGED blurred
    /\ bindings' = {b \in bindings : b.name # name} \cup {Binding(name, rendered)}
    /\ last' = Quiet("register", name)
    /\ UNCHANGED <<options, initial, values, errors, touched, rendered,
                   handlers, validated>>

\* OnChange that also marks the field as touched
OnChangeTouching(b, value) ==
    /\ replaced' = {"values"}
    /\ validations' = 0
    /\ UNCHANGED blurred
    /\ values' = Put(values, b.name, value)
    /\ touched' = Put(touched, b.name, TRUE)
    /\ last' = Call("onChange", b.name, {value}, "void", {}, <<>>, FALSE)
    /\ UNCHANGED <<options, initial, errors, rendered, bindings, handlers, validated>>

\* binding.onChange(value)
OnChange(b, value) ==
    /\ replaced' = {"values"}
    /\ validations' = 0
    /\ UNCHANGED blurred
    /\ values' = Put(values, b.name, value)
    /\ last' = Call("onChange", b.name, {value}, "void", {}, <<>>, FALSE)
    /\ UNCHANGED <<options, initial, errors, touched, rendered,
                   bindings, handlers, validated>>

\* OnBlur that calls setTouched({ [name]: true }) without the flags of prev
OnBlurDroppingFlags(b) ==
    /\ replaced' = {"touched"} \cup ValidateFieldReplaced(errors, b.name)
    /\ validations' = 0
    /\ blurred' = blurred \cup {b.name}
    /\ touched' = Put(EmptyMap, b.name, TRUE)
    /\ errors' = ValidateFieldErrors(errors, b.name, b.values)
    /\ validated' = ValidateFieldNote(b.name, b.values)
    /\ last' = Call("onBlur", b.name, {}, "void",
                    ValidateFieldSeen(b.name, b.values), <<>>, FALSE)
    /\ UNCHANGED <<options, initial, values, rendered, bindings, handlers>>

\* OnBlur that calls validateAll() instead of validateField(name)
OnBlurValidatingAll(b) ==
    /\ replaced' = {"touched", "errors"}
    /\ validations' = 1
    /\ blurred' = blurred \cup {b.name}
    /\ touched' = Put(touched, b.name, TRUE)
    /\ errors' = ValidateAllErrors(b.values)
    /\ validated' = ValidateAllNote(b.values)
    /\ last' = Call("onBlur", b.name, {}, "void",
                    ValidateAllSeen(b.values), <<>>, FALSE)
    /\ UNCHANGED <<options, initial, values, rendered, bindings, handlers>>

\* binding.onBlur()
OnBlur(b) ==
    /\ replaced' = {"touched"} \cup ValidateFieldReplaced(errors, b.name)
    /\ validations' = 0
    /\ blurred' = blurred \cup {b.name}
    /\ touched' = Put(touched, b.name, TRUE)
    /\ errors' = ValidateFieldErrors(errors, b.name, b.values)
    /\ validated' = ValidateFieldNote(b.name, b.values)
    /\ last' = Call("onBlur", b.name, {}, "void",
                    ValidateFieldSeen(b.name, b.values), <<>>, FALSE)
    /\ UNCHANGED <<options, initial, values, rendered, bindings, handlers>>

\* -------------------------------------------------------------------- reset
\* Reset without its setTouched({})
ResetKeepingTouched(next) ==
    /\ replaced' = {"values", "errors"}
    /\ validations' = 0
    /\ blurred' = {}
    /\ values' = IF next = {} THEN options.defaultValues ELSE CHOOSE w \in next : TRUE
    /\ errors' = EmptyMap
    /\ validated' = [f \in Fields |-> "never"]
    /\ last' = Call("reset", NoName, next, "void", {}, <<>>, FALSE)
    /\ UNCHANGED <<options, initial, touched, rendered, bindings, handlers>>

\* Reset that ignores nextValues
ResetIgnoringArgument(next) ==
    /\ replaced' = {"values", "errors", "touched"}
    /\ validations' = 0
    /\ blurred' = {}
    /\ values' = options.defaultValues
    /\ errors' = EmptyMap
    /\ touched' = EmptyMap
    /\ validated' = [f \in Fields |-> "never"]
    /\ last' = Call("reset", NoName, next, "void", {}, <<>>, FALSE)
    /\ UNCHANGED <<options, initial, rendered, bindings, handlers>>

\* result.current.reset(nextValues?): next is {} for a call without argument
Reset(next) ==
    /\ replaced' = {"values", "errors", "touched"}
    /\ validations' = 0
    /\ blurred' = {}
    /\ values' = IF next = {} THEN options.defaultValues ELSE CHOOSE w \in next : TRUE
    /\ errors' = EmptyMap
    /\ touched' = EmptyMap
    /\ validated' = [f \in Fields |-> "never"]
    /\ last' = Call("reset", NoName, next, "void", {}, <<>>, FALSE)
    /\ UNCHANGED <<options, initial, rendered, bindings, handlers>>

\* ------------------------------------------------------------- handleSubmit
\* result.current.handleSubmit(onValid): the callback closes over the render's
\* values and validateAll
HandleSubmit ==
    /\ replaced' = {}
    /\ validations' = 0
    /\ UNCHANGED blurred
    /\ handlers' = {Handler(rendered)}
    /\ last' = Quiet("handleSubmit", NoName)
    /\ UNCHANGED <<options, initial, values, errors, touched, rendered,
                   bindings, validated>>

\* What a submission trigger passes: nothing, an object without the hook, or an
\* event with preventDefault.
Events == {"undefined", "object", "event"}

\* What the onValid of the caller does when it is called.
OnValidOutcomes == {"returns", "throws"}

\* what the submit callback is seen to return: it has no try/catch around onValid
SubmitResult(cvals, outcome) ==
    IF ValidateAllResult(cvals) /\ outcome = "throws" THEN "fault" ELSE "void"

\* Submit that calls e.preventDefault() whenever e is given: an object without
\* the hook makes it throw before it validates
SubmitPreventingBlindly(h, e, outcome) ==
    IF e = "object"
    THEN /\ last' = Call("submit", NoName, {e}, "fault", {}, <<>>, FALSE)
         /\ replaced' = {}
         /\ validations' = 0
         /\ UNCHANGED <<options, initial, values, errors, touched, rendered,
                        bindings, handlers, validated, blurred>>
    ELSE /\ errors' = ValidateAllErrors(h.values)
         /\ validated' = ValidateAllNote(h.values)
         /\ replaced' = {"errors"}
         /\ validations' = 1
         /\ last' = Call("submit", NoName, {e}, SubmitResult(h.values, outcome),
                         ValidateAllSeen(h.values),
                         IF ValidateAllResult(h.values) THEN <<h.values>> ELSE <<>>,
                         e = "event")
         /\ UNCHANGED <<options, initial, values, touched, rendered, bindings,
                        handlers, blurred>>

\* Submit with onValid in a try block whose catch is empty
SubmitSwallowingFault(h, e, outcome) ==
    /\ errors' = ValidateAllErrors(h.values)
    /\ validated' = ValidateAllNote(h.values)
    /\ replaced' = {"errors"}
    /\ validations' = 1
    /\ last' = Call("submit", NoName, {e}, "void", ValidateAllSeen(h.values),
                    IF ValidateAllResult(h.values) THEN <<h.values>> ELSE <<>>,
                    e = "event")
    /\ UNCHANGED <<options, initial, values, touched, rendered, bindings,
                   handlers, blurred>>

\* Submit that validates only when it is given an argument, and takes the values
\* for valid otherwise
SubmitValidatingOnlyWithArgument(h, e, outcome) ==
    IF e = "undefined"
    THEN /\ last' = Call("submit", NoName, {e}, IF outcome = "throws" THEN "fault" ELSE "void",
                         {}, <<h.values>>, FALSE)
         /\ replaced' = {}
         /\ validations' = 0
         /\ UNCHANGED <<options, initial, values, errors, touched, rendered,
                        bindings, handlers, validated, blurred>>
    ELSE /\ errors' = ValidateAllErrors(h.values)
         /\ validated' = ValidateAllNote(h.values)
         /\ replaced' = {"errors"}
         /\ validations' = 1
         /\ last' = Call("submit", NoName, {e}, SubmitResult(h.values, outcome),
                         ValidateAllSeen(h.values),
                         IF ValidateAllResult(h.values) THEN <<h.values>> ELSE <<>>,
                         e = "event")
         /\ UNCHANGED <<options, initial, values, touched, rendered, bindings,
                        handlers, blurred>>

\* the callback handleSubmit returned, invoked with e, for an onValid with the outcome
Submit(h, e, outcome) ==
    /\ errors' = ValidateAllErrors(h.values)
    /\ validated' = ValidateAllNote(h.values)
    /\ replaced' = {"errors"}
    /\ validations' = 1
    /\ last' = Call("submit", NoName, {e}, SubmitResult(h.values, outcome),
                    ValidateAllSeen(h.values),
                    IF ValidateAllResult(h.values) THEN <<h.values>> ELSE <<>>,
                    e = "event")
    /\ UNCHANGED <<options, initial, values, touched, rendered, bindings,
                   handlers, blurred>>

\* ------------------------------------------------------------------- render
\* React renders the component again: useForm runs with the queued state, and the
\* component takes its binding and its submit callback from the new render.
Render ==
    /\ replaced' = {}
    /\ validations' = 0
    /\ UNCHANGED blurred
    /\ rendered # values
    /\ rendered' = values
    /\ bindings' = {Binding(b.name, values) : b \in bindings}
    /\ handlers' = {Handler(values) : h \in handlers}
    /\ last' = Quiet("render", NoName)
    /\ UNCHANGED <<options, initial, values, errors, touched, validated>>

Next ==
    \/ \E name \in Fields, value \in Strings : SetValue(name, value)
    \/ \E name \in Fields : ValidateField(name)
    \/ ValidateAll
    \/ \E name \in Fields : Register(name)
    \/ \E b \in bindings, value \in Strings : OnChange(b, value)
    \/ \E b \in bindings : OnBlur(b)
    \/ \E next \in {{}} \cup {{w} : w \in TValues} : Reset(next)
    \/ HandleSubmit
    \/ \E h \in handlers, e \in Events, outcome \in OnValidOutcomes : Submit(h, e, outcome)
    \/ Render

Spec == Init /\ [][Next]_vars

\* ------------------------------------------------- callers without the types
\* A name that is no key of defaultValues: `name: K extends keyof TValues` is
\* checked by the compiler only, a caller in JavaScript can pass any string.
Unknown == "ghost"

Names == Fields \cup {Unknown}

NextAnyName ==
    \/ \E name \in Names, value \in Strings : SetValue(name, value)
    \/ \E name \in Names : ValidateField(name)
    \/ ValidateAll
    \/ \E name \in Names : Register(name)
    \/ \E b \in bindings, value \in Strings : OnChange(b, value)
    \/ \E b \in bindings : OnBlur(b)
    \/ \E next \in {{}} \cup {{w} : w \in TValues} : Reset(next)
    \/ HandleSubmit
    \/ \E h \in handlers, e \in Events, outcome \in OnValidOutcomes : Submit(h, e, outcome)
    \/ Render

\* a form of the tests: a required password, a confirm field without validator
InitAnyName == Init /\ options.validators = [present |-> TRUE, of |-> Only("password", "required")]

SpecAnyName == InitAnyName /\ [][NextAnyName]_vars

\* --------------------------------------- callers that change defaultValues
\* The component renders again and passes useForm another defaultValues: useState
\* keeps its state, and the callbacks are made anew from the options of this render
\* (reset has the dependencies [defaultValues]).
Reinvoke(defaults) ==
    /\ defaults # options.defaultValues
    /\ options' = [options EXCEPT !.defaultValues = defaults]
    /\ rendered' = values
    /\ bindings' = {Binding(b.name, values) : b \in bindings}
    /\ handlers' = {Handler(values) : h \in handlers}
    /\ replaced' = {}
    /\ validations' = 0
    /\ last' = Quiet("render", NoName)
    /\ UNCHANGED <<initial, values, errors, touched, validated, blurred>>

NextReinvoked ==
    \/ Next
    \/ \E defaults \in TValues : Reinvoke(defaults)

SpecReinvoked == Init /\ [][NextReinvoked]_vars

\* ------------------------------------------- calls made in a later event
\* validateField(name) called in the event after the one that changed values: React
\* has rendered the queued state first, so the call is that of the new render.
ValidateFieldAfterRender(name) ==
    /\ rendered # values
    /\ rendered' = values
    /\ bindings' = {Binding(b.name, values) : b \in bindings}
    /\ handlers' = {Handler(values) : h \in handlers}
    /\ errors' = ValidateFieldErrors(errors, name, values)
    /\ validated' = ValidateFieldNote(name, values)
    /\ replaced' = ValidateFieldReplaced(errors, name)
    /\ validations' = 0
    /\ last' = Call("validateField", name, {}, ValidateFieldResult(name, values),
                    ValidateFieldSeen(name, values), <<>>, FALSE)
    /\ UNCHANGED <<options, initial, values, touched, blurred>>

\* validateAll() called in the event after the one that changed values
ValidateAllAfterRender ==
    /\ rendered # values
    /\ rendered' = values
    /\ bindings' = {Binding(b.name, values) : b \in bindings}
    /\ handlers' = {Handler(values) : h \in handlers}
    /\ errors' = ValidateAllErrors(values)
    /\ validated' = ValidateAllNote(values)
    /\ replaced' = {"errors"}
    /\ validations' = 1
    /\ last' = Call("validateAll", NoName, {}, ValidateAllResult(values),
                    ValidateAllSeen(values), <<>>, FALSE)
    /\ UNCHANGED <<options, initial, values, touched, blurred>>

NextEvents ==
    \/ Next
    \/ \E name \in Fields : ValidateFieldAfterRender(name)
    \/ ValidateAllAfterRender

SpecEvents == Init /\ [][NextEvents]_vars

\* =================================================================== claims
\* Every validator of the form yields the no-error signal for vals.
AllAccept(vals) == \A f \in Fields : HasValidator(f) => Message(f, vals) = Null

\* Some validator of the form returns a message for vals.
SomeReject(vals) == \E f \in Fields : HasValidator(f) /\ Truthy(Message(f, vals))

\* The fields whose validator returns a message for vals, each with that message.
MessagesFor(vals) ==
    [f \in {g \in Fields : HasValidator(g) /\ Truthy(Message(g, vals))} |-> Message(f, vals)]

\* C1: a validation evaluates the values that are current when it runs, also right
\* after a setValue and before any render: the validators are handed the current
\* values, and validateField of a field whose current value is valid returns true
\* and leaves the field without an error.
C1_ValidationReadsCurrentValues ==
    /\ last.op \in {"validateField", "validateAll"} => \A seen \in last.seen : seen = values
    /\ (last.op = "validateField" /\ HasValidator(last.name)
            /\ Message(last.name, values) = Null)
        => (last.ret = TRUE /\ last.name \notin DOMAIN errors)

\* C2: when every validator accepts the current values, the submit callback calls
\* onValid exactly once, with the current values.
C2_SubmitCallsOnValidWithCurrentValues ==
    (last.op = "submit" /\ AllAccept(values)) => last.onValid = <<values>>

\* C3: when a validator rejects the current values, the submit callback does not
\* call onValid, and errors is what validateAll produces for these values.
C3_SubmitGatedOnCurrentValues ==
    (last.op = "submit" /\ SomeReject(values))
        => (last.onValid = <<>> /\ errors = ValidateAllErrors(values))

\* C4: after validateAll, errors holds exactly the fields whose validator returns a
\* message for the current values, each with that message.
C4_ValidateAllErrorsAreThoseOfCurrentValues ==
    last.op = "validateAll" => errors = MessagesFor(values)

\* C5: validateAll returns true exactly when the errors mapping it installs is
\* empty, and false when a validator it ran returned a message.
C5_ValidateAllTrueIffNoErrors ==
    last.op = "validateAll"
        => /\ last.ret = TRUE <=> errors = EmptyMap
           /\ \A seen \in last.seen : SomeReject(seen) => last.ret = FALSE

C5_Witness ==
    /\ last.op = "validateAll"
    /\ last.ret = FALSE
    /\ DOMAIN errors = {"confirm"}
    /\ HasValidator("password")

\* C6: for a field with a validator, validateField returns true exactly when the
\* validator yields the no-error signal for the current values; when it returns
\* false the field's error is the message returned, when true the field has none.
C6_ValidateFieldResultAndError ==
    (last.op = "validateField" /\ HasValidator(last.name))
        => /\ last.ret = TRUE <=> Message(last.name, values) = Null
           /\ last.ret = FALSE
                => /\ last.name \in DOMAIN errors
                   /\ errors[last.name] = Message(last.name, values)
           /\ last.ret = TRUE => last.name \notin DOMAIN errors

C9_SetValueChangesOneValueOnly ==
    [][\A a \in Fields, x \in Strings :
          (last'.op = "setValue" /\ SetValue(a, x))
              => /\ values'[a] = x
                 /\ DOMAIN values' = DOMAIN values
                 /\ \A b \in Fields \ {a} : values'[b] = values[b]
                 /\ errors' = errors
                 /\ touched' = touched
                 /\ validated' = validated]_vars

C9_Witness ==
    /\ last.op = "setValue"
    /\ values[last.name] # rendered[last.name]
    /\ errors # EmptyMap
    /\ touched # EmptyMap

\* C10: reset() without argument leaves the values of the construction, no errors
\* and no touched flags, whatever was done before.
C10_ResetRestoresConstruction ==
    (last.op = "reset" /\ last.arg = {})
        => /\ values = initial
           /\ errors = EmptyMap
           /\ touched = EmptyMap

C10_Witness ==
    /\ last.op = "reset"
    /\ last.arg = {}
    /\ values = initial
    /\ rendered # initial

\* C11: reset(W) with W supplying every field leaves values equal to W, no errors
\* and no touched flags, whatever errors and touched held before.
C11_ResetToGivenValues ==
    (last.op = "reset" /\ last.arg # {})
        => /\ last.arg = {values}
           /\ errors = EmptyMap
           /\ touched = EmptyMap

C11_Witness ==
    /\ last.op = "reset"
    /\ last.arg = {values}
    /\ values # initial
    /\ values # rendered
    /\ errors = EmptyMap
    /\ touched = EmptyMap

\* C12: after the blur callback of the binding of a field, touched[name] is true
\* whatever the validation gave, and errors[name] is the validator's result for the
\* field: the message for the field's value if there is one, no entry otherwise.
C12_BlurTouchesAndValidates ==
    last.op = "onBlur"
        => /\ last.name \in DOMAIN touched
           /\ touched[last.name] = TRUE
           /\ last.name \in DOMAIN errors
                <=> (HasValidator(last.name) /\ Truthy(Message(last.name, values)))
           /\ last.name \in DOMAIN errors
                => errors[last.name] = Message(last.name, values)

\* C13: in every state, whatever call was made last (construction, a submit
\* callback, reset or any other), the object the hook returns has the property
\* isSubmitting and its value is false.
C13_IsSubmittingIsFalse ==
    last.op \in {"useForm", "render", "setValue", "validateField", "validateAll",
                 "register", "onChange", "onBlur", "reset", "handleSubmit", "submit"}
        => /\ "isSubmitting" \in UseFormReturn
           /\ IsSubmitting = "false"

\* C14: right after construction with initial values V, values is V, errors and
\* touched are empty and no validator has run, also when the validators reject V.
C14_ConstructionValidatesNothing ==
    last.op = "useForm"
        => /\ values = options.defaultValues
           /\ errors = EmptyMap
           /\ touched = EmptyMap
           /\ last.seen = {}
           /\ \A f \in Fields : validated[f] = "never"

C14_Witness ==
    /\ last.op = "useForm"
    /\ SomeReject(values)
    /\ errors = EmptyMap

\* C15: when every call names a field of the form, the keys of values are the field
\* names of the construction, and the keys of errors and of touched are among them.
C15_KeysAreFieldNames ==
    /\ DOMAIN values = DOMAIN initial
    /\ DOMAIN values = Fields
    /\ DOMAIN errors \subseteq Fields
    /\ DOMAIN touched \subseteq Fields

C15_Witness ==
    /\ DOMAIN errors = Fields
    /\ DOMAIN touched = Fields
    /\ values # initial
    /\ last.op = "setValue"

\* C16: onChange(v) of the binding of a field does what setValue(name, v) does: it
\* makes values[name] equal v and leaves the other values, errors and touched.
C16_OnChangeIsSetValue ==
    [][\A b \in bindings, v \in Strings :
          (last'.op = "onChange" /\ OnChange(b, v))
              => /\ values' = Put(values, b.name, v)
                 /\ values'[b.name] = v
                 /\ \A other \in Fields \ {b.name} : values'[other] = values[other]
                 /\ errors' = errors
                 /\ touched' = touched
                 /\ validated' = validated]_vars

C16_Witness ==
    /\ last.op = "onChange"
    /\ last.arg = {values[last.name]}
    /\ values[last.name] # rendered[last.name]
    /\ errors # EmptyMap
    /\ touched # EmptyMap

\* C17: the value of the binding register(name) returns is values[name] of the
\* state at the time of the call, after any mutations.
C17_BindingValueIsCurrent ==
    last.op = "register"
        => \A b \in bindings : b.name = last.name => b.value = values[b.name]

\* C18: the submit callback calls preventDefault exactly when its argument has
\* one and completes otherwise too, with no fault but one raised by onValid; in
\* every case validateAll runs and onValid is called, once, exactly when
\* validateAll found no error.
C18_SubmitToleratesAnyArgument ==
    last.op = "submit"
        => /\ last.prevented = (last.arg = {"event"})
           /\ last.ret = "fault" => last.onValid # <<>>
           /\ \A f \in Fields : validated[f] # "never"
           /\ last.onValid # <<>> <=> errors = EmptyMap
           /\ Len(last.onValid) <= 1

C18_Witness ==
    /\ last.op = "submit"
    /\ last.arg = {"object"}
    /\ last.ret = "void"
    /\ ~last.prevented
    /\ last.onValid = <<>>
    /\ errors # EmptyMap

\* C19: two setValue calls on different fields with no render in between both take
\* effect: after setValue(a, x) and then setValue(b, y), values[a] is x and
\* values[b] is y.
C19_BackToBackSetValuesBothApply ==
    [][\A b \in Fields, y \in Strings :
          (last.op = "setValue" /\ last.name # b /\ last'.op = "setValue" /\ SetValue(b, y))
              => /\ last.arg = {values'[last.name]}
                 /\ values'[b] = y]_vars

C19_Witness ==
    /\ last.op = "setValue"
    /\ \A f \in Fields : values[f] # rendered[f]

\* C20: a submit callback or a binding obtained earlier validates the latest
\* values when it is invoked after later setValue, onChange or reset calls:
\* onChange(x) followed by onBlur() of the same binding validates x.
C20_HeldCallbacksSeeLatestValues ==
    last.op \in {"onBlur", "submit"} => \A seen \in last.seen : seen = values

\* The errors validateField leaves when it is called for every field of the
\* sequence in turn, with the values cvals, started from the mapping acc.
RECURSIVE ValidateEachField(_, _, _)
ValidateEachField(keys, cvals, acc) ==
    IF keys = <<>> THEN acc
    ELSE ValidateEachField(Tail(keys), cvals, ValidateFieldErrors(acc, Head(keys), cvals))

\* C21: validateAll and validateField agree on every field: for the values it
\* read, validateAll returns true exactly when validateField returns true for
\* every field, and the errors it installs are those that validateField called for
\* every field leaves, started from no errors.
C21_ValidateAllAgreesWithValidateField ==
    last.op = "validateAll"
        => /\ last.ret = TRUE <=> \A f \in Fields : ValidateFieldResult(f, rendered)
           /\ errors = ValidateEachField(FieldOrder, rendered, EmptyMap)

\* C22: every invocation of the submit callback runs validateAll exactly once,
\* whatever its argument and whether the values are valid, and decides on its
\* result whether to call onValid: onValid is called only if it returned true,
\* and left out only if a validator it ran rejected the values.
C22_SubmitValidatesExactlyOnce ==
    last.op = "submit"
        => /\ validations = 1
           /\ "errors" \in replaced
           /\ \A f \in Fields : validated[f] # "never"
           /\ Len(last.onValid) <= 1
           /\ last.onValid # <<>>
                => (errors = EmptyMap /\ ValidateAllResult(last.onValid[1]))
           /\ last.onValid = <<>> => \E cvals \in last.seen : ~ValidateAllResult(cvals)

C22_Witness ==
    /\ last.op = "submit"
    /\ validations = 1
    /\ ~last.prevented
    /\ last.onValid = <<>>
    /\ errors # EmptyMap
    /\ touched # EmptyMap

\* C23: validateField(name) changes at most the errors entry of name: values,
\* touched and the errors entries of the other fields are after the call what they
\* were before it.
C23_ValidateFieldChangesOnlyItsEntry ==
    [][\A name \in Fields :
          (last'.op = "validateField" /\ ValidateField(name))
              => /\ values' = values
                 /\ touched' = touched
                 /\ \A f \in Fields \ {name} :
                       /\ f \in DOMAIN errors' <=> f \in DOMAIN errors
                       /\ f \in DOMAIN errors => errors'[f] = errors[f]]_vars

C23_Witness ==
    /\ last.op = "validateField"
    /\ last.name = "password"
    /\ HasValidator("password")
    /\ "password" \notin DOMAIN errors
    /\ "confirm" \in DOMAIN errors
    /\ touched # EmptyMap
    /\ values # rendered

\* C24: setValue, validateField or a blur callback called with a name that is no
\* field of the form changes nothing or signals a fault: afterwards the keys of
\* values, errors and touched are still field names only.
C24_UnknownNameAddsNoKey ==
    (last.op \in {"setValue", "validateField", "onBlur"} /\ last.name \notin Fields)
        => /\ DOMAIN values \subseteq Fields
           /\ DOMAIN errors \subseteq Fields
           /\ DOMAIN touched \subseteq Fields

\* C25: in every reachable state each entry of errors is a non-empty message: no
\* operation stores the empty string or the no-error signal as the error of a
\* field, whatever the validators return.
C25_ErrorsAreNonEmptyMessages ==
    \A f \in DOMAIN errors : errors[f] # "" /\ errors[f] # Null

C25_Witness ==
    /\ last.op = "validateAll"
    /\ validated["password"] = ""
    /\ validated["confirm"] = Null
    /\ errors = EmptyMap

\* C26: in every reachable state touched[name] is true exactly for the fields
\* whose blur callback was invoked since construction or the most recent reset;
\* setValue, validateField, validateAll and the submit callback neither set nor
\* clear a flag.
C26_TouchedIffBlurredSinceReset ==
    /\ \A f \in Fields : (f \in DOMAIN touched /\ touched[f] = TRUE) <=> f \in blurred
    /\ \A f \in DOMAIN touched : touched[f] = TRUE
    /\ last.op \in {"setValue", "validateField", "validateAll", "submit"}
            => "touched" \notin replaced

C26_Witness ==
    /\ last.op = "validateAll"
    /\ blurred = {"confirm"}
    /\ DOMAIN touched = {"confirm"}
    /\ values # initial
    /\ errors # EmptyMap

\* C27: the validator of a field is handed the current value of the field and the
\* current values, so a validator that compares its field with another one sees
\* the current value of the other: after a validation of confirm, whose validator
\* wants it equal to password, confirm has an error exactly when the current confirm
\* differs from the current password.
C27_ValidatorSeesTheOtherCurrentValue ==
    (/\ HasValidator("confirm")
     /\ options.validators.of["confirm"] = "match"
     /\ \/ last.op = "validateAll"
        \/ last.op = "validateField" /\ last.name = "confirm")
        => /\ "confirm" \in DOMAIN errors <=> values["confirm"] # values["password"]
           /\ \A seen \in last.seen : seen["password"] = values["password"]

\* C28: reset() without argument restores the values of the original
\* construction also when the caller has since passed another defaultValues: the
\* defaultValues passed later are not what reset() installs.
C28_ResetTargetIsTheFirstDefaultValues ==
    (last.op = "reset" /\ last.arg = {} /\ options.defaultValues # initial)
        => (values = initial /\ values # options.defaultValues)

\* C29: a fault raised by onValid inside the submit callback is not swallowed: the
\* callback ends with the fault, and the errors mapping the preceding validateAll
\* computed is the one installed.
C29_OnValidFaultPropagates ==
    [][\A h \in handlers, e \in Events :
          (/\ last'.op = "submit"
           /\ last'.onValid # <<>>
           /\ Submit(h, e, "throws"))
              => /\ last'.ret = "fault"
                 /\ last'.onValid = <<h.values>>
                 /\ errors' = ValidateAllErrors(h.values)
                 /\ "errors" \in replaced']_vars

C29_Witness ==
    /\ last.op = "submit"
    /\ last.ret = "fault"
    /\ last.onValid # <<>>
    /\ HasValidator("confirm")
    /\ errors = EmptyMap
    /\ touched # EmptyMap

C31_ValidateAllAndSubmitKeepValuesAndTouched ==
    [][last'.op \in {"validateAll", "submit"}
          => /\ values' = values
             /\ touched' = touched
             /\ replaced' \subseteq {"errors"}]_vars

C31_Witness ==
    /\ last.op = "submit"
    /\ last.onValid = <<>>
    /\ values # rendered
    /\ values # initial
    /\ DOMAIN touched = {"password"}

\* C32: the blur callback of a field changes only touched[name] and errors[name]:
\* values, the touched flags of the other fields and the errors entries of the
\* other fields are after the call what they were before it.
C32_BlurChangesOnlyItsField ==
    [][last'.op = "onBlur"
          => /\ values' = values
             /\ \A f \in Fields \ {last'.name} :
                   /\ f \in DOMAIN touched' <=> f \in DOMAIN touched
                   /\ f \in DOMAIN touched => touched'[f] = touched[f]
                   /\ f \in DOMAIN errors' <=> f \in DOMAIN errors
                   /\ f \in DOMAIN errors => errors'[f] = errors[f]]_vars

C32_Witness ==
    /\ last.op = "onBlur"
    /\ last.name = "password"
    /\ DOMAIN touched = Fields
    /\ DOMAIN errors = {"confirm"}
    /\ HasValidator("password")
    /\ values # initial

\* The entry of field f in errors is what the latest validation of f recorded in
\* noted produced: its message if it has one, no entry otherwise.
Reflects(errs, noted, f) ==
    /\ f \in DOMAIN errs <=> Truthy(noted[f])
    /\ f \in DOMAIN errs => errs[f] = noted[f]

\* C33: error updates issued one after the other with no render in between are
\* not lost: after validateField(a) or the blur callback of a, followed by that of
\* another field b, errors reflects both results and touched holds the flag of
\* every blur; and when validateAll follows, errors is exactly what validateAll
\* computed.
C33_BackToBackErrorUpdatesBothApply ==
    [][/\ (/\ last.op \in {"validateField", "onBlur"}
           /\ last'.op \in {"validateField", "onBlur"}
           /\ last'.name # last.name)
            => /\ Reflects(errors, validated, last.name)
               /\ Reflects(errors', validated', last.name)
               /\ validated'[last.name] = validated[last.name]
               /\ Reflects(errors', validated', last'.name)
               /\ last.op = "onBlur"
                    => (last.name \in DOMAIN touched' /\ touched'[last.name] = TRUE)
               /\ last'.op = "onBlur"
                    => (last'.name \in DOMAIN touched' /\ touched'[last'.name] = TRUE)
       /\ (last.op \in {"validateField", "onBlur"} /\ last'.op = "validateAll")
            => /\ errors' = ValidateAllErrors(rendered)
               /\ \A f \in Fields : Reflects(errors', validated', f)]_vars

C33_Witness ==
    /\ last.op = "onBlur"
    /\ last.name = "confirm"
    /\ DOMAIN touched = Fields
    /\ DOMAIN errors = Fields
    /\ rendered = initial
    /\ values = rendered

\* C34: validateAll and validateField(name) are idempotent: the same call made
\* twice in a row, with no setValue or reset in between, returns the same boolean
\* both times and leaves the errors the first call left.
C34_ValidationIsIdempotent ==
    [][/\ (last.op = "validateField" /\ last'.op = "validateField"
                /\ last'.name = last.name)
            => (last'.ret = last.ret /\ errors' = errors)
       /\ (last.op = "validateAll" /\ last'.op = "validateAll")
            => (last'.ret = last.ret /\ errors' = errors)]_vars

====
